---- MODULE Spec2Model ----
(***************************************************************************)
(* StarMap (src/dodo.py): a Dash page whose single callback, update_map,   *)
(* turns (city, date, hour) into a polar sky chart built by make_sky_map.  *)
(*                                                                         *)
(* Units.  Angles are whole degrees.  Magnitudes are tenths of a magnitude *)
(* (60 is magnitude 6.0).  Marker sizes are fixed point, 100000 per unit   *)
(* (50000 is 0.5, 1200000 is 12).                                          *)
(*                                                                         *)
(* The astrometry itself (skyfield: kernel, timescale, apparent places) is *)
(* an external library.  It is modelled by a small deterministic stand-in  *)
(* sky, Observe, that has the library's contract: a total function of      *)
(* (target, observer, instant) giving altitude in -90..90 and azimuth in   *)
(* 0..359, or raising when the instant lies outside the loaded kernel.     *)
(***************************************************************************)
EXTENDS Integers, Sequences, FiniteSets

VARIABLES
    \* module-level state of dodo.py, built once at import
    planets, earth, ts, stars, bodies, locations,
    \* one browser session: the three input components and the graph
    city, date, hour, display,
    \* one callback invocation per session: its arguments, its position, its
    \* locals, and how the last invocation ended
    req, pc, location, t, planet_data, bright_stars, star_data, fig, outcome,
    \* history: the targets handed to to_altaz by the current invocation
    calls,
    \* the marker size function applied to a pair of magnitudes
    mag1, mag2, size1, size2

shared == <<planets, earth, ts, stars, bodies, locations>>
inputs == <<city, date, hour>>
locals == <<location, t, planet_data, bright_stars, star_data, fig>>
probe  == <<mag1, mag2, size1, size2>>
vars   == <<shared, inputs, display, req, pc, locals, outcome, calls, probe>>

----------------------------------------------------------------------------
(* Bounds of the model *)

\* rows of the star catalog
NStars == 4

\* the magnitudes the size function is applied to: MinMag..MaxMag tenths
MaxMag == 200

Sessions == {1, 2}

None == "None"

Abs(x) == IF x < 0 THEN -x ELSE x

Max(a, b) == IF a >= b THEN a ELSE b

----------------------------------------------------------------------------
(* Module-level data *)

\* planet_ids
planet_ids ==
    [n \in {"Mercury", "Venus", "Mars", "Moon", "Sun"} |->
        CASE n = "Mercury" -> 199
          [] n = "Venus"   -> 299
          [] n = "Mars"    -> 499
          [] n = "Moon"    -> 301
          [] n = "Sun"     -> 10]

\* load('de422.bsp'): the bodies the kernel serves, each with the stand-in
\* sky's elements (right ascension at day 0, degrees of right ascension per
\* day, declination), and the years DE422 covers, -3000 to 3000
Kernel ==
    [segments |->
        [id \in {10, 199, 299, 301, 399, 499} |->
            CASE id = 10  -> [ra0 |-> 0,   rate |-> 1,  dec |-> 20]
              [] id = 199 -> [ra0 |-> 10,  rate |-> 4,  dec |-> 15]
              [] id = 299 -> [ra0 |-> 200, rate |-> 2,  dec |-> -10]
              [] id = 301 -> [ra0 |-> 145, rate |-> 13, dec |-> -1]
              [] id = 399 -> [ra0 |-> 0,   rate |-> 0,  dec |-> 0]
              [] id = 499 -> [ra0 |-> 298, rate |-> 1,  dec |-> 8]],
     first_year |-> -3000,
     last_year  |-> 3000]

\* rows the catalog may hold, in index (hip) order
StarPool ==
    << [hip |-> 1001, magnitude |-> -14, ra |-> 19,  dec |-> 38],
       [hip |-> 2002, magnitude |-> 59,  ra |-> 69,  dec |-> -2],
       [hip |-> 3003, magnitude |-> 60,  ra |-> 29,  dec |-> 30],
       [hip |-> 4004, magnitude |-> 20,  ra |-> 200, dec |-> -60],
       [hip |-> 5005, magnitude |-> 75,  ra |-> 30,  dec |-> 0] >>

\* the catalog as loaded: the first NStars rows
Catalog == SubSeq(StarPool, 1, NStars)

\* locations, a few rows of it, in whole degrees
Locations ==
    [c \in {"San Francisco", "Nairobi"} |->
        IF c = "San Francisco" THEN <<38, -122>> ELSE <<-1, 37>>]

\* what the three components can be set to: a listed city or the cleared
\* dropdown; a date text by its fields (two dates, a text that is no date, a
\* date past the kernel's years); an hour
CityValues == {"San Francisco", "Nairobi", None}

DateValues == {<<2024, 6, 21>>, <<2024, 12, 21>>, <<2024, 2, 30>>, <<3001, 1, 1>>}

HourValues == {0, 22}

----------------------------------------------------------------------------
(* datetime.fromisoformat, on a date text given by its three fields *)

IsLeap(y) == (y % 4 = 0 /\ y % 100 # 0) \/ y % 400 = 0

DaysInMonth(y, m) ==
    IF m = 2 THEN (IF IsLeap(y) THEN 29 ELSE 28)
    ELSE IF m \in {4, 6, 9, 11} THEN 30 ELSE 31

IsIsoDate(d) ==
    /\ d[1] \in 1..9999
    /\ d[2] \in 1..12
    /\ d[3] \in 1..DaysInMonth(d[1], d[2])

fromisoformat(d) == [year |-> d[1], month |-> d[2], day |-> d[3]]

----------------------------------------------------------------------------
(* The external astrometry, as a stand-in sky *)

\* ts.utc(year, month, day, hour, minute)
utc(year, month, day, hr, minute) ==
    [year |-> year, month |-> month, day |-> day, hour |-> hr, minute |-> minute]

\* earth + Topos(latitude_degrees, longitude_degrees)
Topos(lat, lon) == [center |-> earth, lat |-> lat, lon |-> lon]

\* Star.from_dataframe(row)
StarFromRow(row) == [kind |-> "star", ra |-> row.ra, dec |-> row.dec]

\* planets[naif_id]
Segment(id) == [kind |-> "segment", id |-> id]

DayAngle(tm) == (30 * (tm.month - 1) + tm.day) % 360

\* the direction of a target at an instant: right ascension, declination
Direction(obj, tm) ==
    IF obj.kind = "star" THEN [ra |-> obj.ra, dec |-> obj.dec]
    ELSE LET e == planets.segments[obj.id]
         IN  [ra |-> (e.ra0 + e.rate * DayAngle(tm)) % 360, dec |-> e.dec]

\* the observer's meridian at an instant
SiderealAngle(loc, tm) ==
    (15 * tm.hour + tm.minute \div 4 + loc.lon + DayAngle(tm) + 720) % 360

\* location.at(t).observe(obj).apparent().altaz(): the kernel serves the years
\* it covers and raises outside them
Observe(obj, loc, tm) ==
    IF tm.year < planets.first_year \/ tm.year > planets.last_year
    THEN [raised |-> TRUE, alt |-> 0, az |-> 0]
    ELSE LET d  == Direction(obj, tm)
             ha == ((SiderealAngle(loc, tm) - d.ra + 900) % 360) - 180
         IN  [raised |-> FALSE,
              alt |-> Max(-90, 90 - Abs(loc.lat - d.dec) - Abs(ha)),
              az  |-> (ha + 360) % 360]

to_altaz(obj, loc, tm) == Observe(obj, loc, tm)

----------------------------------------------------------------------------
(* make_sky_map: the pure parts *)

selected_planets == <<"Mercury", "Venus", "Mars", "Moon", "Sun">>

\* the horizon test with the horizon itself let through
VisibleOrOnHorizon(alt) == alt >= 0

\* the horizon test, alt > 0
Visible(alt) == alt > 0

\* the magnitude cut of bright_stars, magnitude < 6
MagLimit == 60

\* the magnitude cut with the limit itself let through
IsBrightOrAtLimit(magnitude) == magnitude <= MagLimit

IsBright(magnitude) == magnitude < MagLimit

\* the radius taken from the horizon instead of from the zenith
RadiusIsAltitude(alt) == alt

\* fixed-point product a * b / 100000, split so that no step leaves 32 bits
FixMul(a, b) == ((a \div 1000) * b) \div 100 + ((a % 1000) * b) \div 100000

\* q to the n-th power in fixed point, by repeated squaring
RECURSIVE FixPow(_, _)
FixPow(q, n) ==
    IF n = 0 THEN 100000
    ELSE LET h  == FixPow(q, n \div 2)
             sq == FixMul(h, h)
         IN  IF n % 2 = 1 THEN FixMul(sq, q) ELSE sq

\* np.exp(-0.4 * (mag - 1.0)) in fixed point; n is the magnitude in tenths
\* less 10: exp(-0.04) = 0.96079 to the n-th power, or exp(0.04) = 1.04081 to
\* the (-n)-th below magnitude 1.0
ExpDecay(n) == IF n >= 0 THEN FixPow(96079, n) ELSE FixPow(104081, 0 - n)

\* the size with its floor mistyped as 5
StarSizeFloorFive(magnitude) == Max(500000, 12 * ExpDecay(magnitude - 10))

\* the size without its floor
StarSizeNoFloor(magnitude) == 12 * ExpDecay(magnitude - 10)

\* size = max(0.5, 12 * np.exp(-0.4 * (mag - 1.0)))
StarSize(magnitude) == Max(50000, 12 * ExpDecay(magnitude - 10))

\* 90 - alt
Radius(alt) == 90 - alt

planet_colors ==
    [n \in {"Mercury", "Venus", "Mars", "Jupiter", "Saturn"} |-> "lightgray"]

\* planet_colors.get(name, "lightgray")
ColorOf(name) ==
    IF name \in DOMAIN planet_colors THEN planet_colors[name] ELSE "lightgray"

StarTrace(sd) ==
    [r |-> Radius(sd.alt), theta |-> sd.az, mode |-> "markers",
     size |-> StarSize(sd.magnitude), color |-> "white",
     hovertext |-> <<sd.hip, sd.magnitude>>]

PlanetTrace(pd) ==
    [r |-> Radius(pd.alt), theta |-> pd.az, mode |-> "markers+text",
     size |-> 15 * 100000, color |-> ColorOf(pd.name),
     hovertext |-> <<>>]

Layout ==
    [bgcolor |-> "black", radial_range |-> <<0, 90>>, direction |-> "clockwise",
     rotation |-> 180, showlegend |-> FALSE]

\* for name in selected_planets: to_altaz, keep the visible ones; a raise
\* leaves the loop
RECURSIVE PlanetLoop(_, _, _, _, _)
PlanetLoop(names, loc, tm, acc, log) ==
    IF names = <<>> THEN [raised |-> FALSE, data |-> acc, calls |-> log]
    ELSE LET name == Head(names)
             p    == to_altaz(bodies[name], loc, tm)
             log2 == Append(log, <<"body", bodies[name].id>>)
         IN  IF p.raised THEN [raised |-> TRUE, data |-> acc, calls |-> log2]
             ELSE PlanetLoop(Tail(names), loc, tm,
                     IF Visible(p.alt)
                     THEN Append(acc, [name |-> name, alt |-> p.alt, az |-> p.az])
                     ELSE acc,
                     log2)

\* stars[stars['magnitude'] < 6]
BrightStars(catalog) == SelectSeq(catalog, LAMBDA row : IsBright(row.magnitude))

\* for hip, row in bright_stars.iterrows(): to_altaz, keep the visible ones
RECURSIVE StarLoop(_, _, _, _, _)
StarLoop(rows, loc, tm, acc, log) ==
    IF rows = <<>> THEN [raised |-> FALSE, data |-> acc, calls |-> log]
    ELSE LET row  == Head(rows)
             p    == to_altaz(StarFromRow(row), loc, tm)
             log2 == Append(log, <<"star", row.hip>>)
         IN  IF p.raised THEN [raised |-> TRUE, data |-> acc, calls |-> log2]
             ELSE StarLoop(Tail(rows), loc, tm,
                     IF Visible(p.alt)
                     THEN Append(acc, [magnitude |-> row.magnitude, alt |-> p.alt,
                                       az |-> p.az, hip |-> row.hip])
                     ELSE acc,
                     log2)

\* for ... in star_data: fig.add_trace(...)
RECURSIVE AddStarTraces(_, _)
AddStarTraces(data, sds) ==
    IF sds = <<>> THEN data
    ELSE AddStarTraces(Append(data, StarTrace(Head(sds))), Tail(sds))

\* for ... in planet_data: fig.add_trace(...)
RECURSIVE AddPlanetTraces(_, _)
AddPlanetTraces(data, pds) ==
    IF pds = <<>> THEN data
    ELSE AddPlanetTraces(Append(data, PlanetTrace(Head(pds))), Tail(pds))

----------------------------------------------------------------------------
(* State *)

\* a local of an invocation that is not running, or not yet assigned
Unbound == "unbound"

\* the figure a session shows: none before its first chart arrives
NoFigure == <<>>

\* the layout's first values: "San Francisco", the start-up day, 22
SessionInit ==
    /\ city = [s \in Sessions |-> "San Francisco"]
    /\ date = [s \in Sessions |-> <<2024, 6, 21>>]
    /\ hour = [s \in Sessions |-> 22]
    /\ display = [s \in Sessions |-> NoFigure]
    \* a page that loads calls the callback with the components' first values
    /\ req = [s \in Sessions |->
                [city |-> "San Francisco", date |-> <<2024, 6, 21>>, hour |-> 22]]
    /\ pc = [s \in Sessions |-> "update_map"]
    /\ location = [s \in Sessions |-> Unbound]
    /\ t = [s \in Sessions |-> Unbound]
    /\ planet_data = [s \in Sessions |-> Unbound]
    /\ bright_stars = [s \in Sessions |-> Unbound]
    /\ star_data = [s \in Sessions |-> Unbound]
    /\ fig = [s \in Sessions |-> Unbound]
    /\ outcome = [s \in Sessions |-> "running"]
    /\ calls = [s \in Sessions |-> <<>>]

SharedInit ==
    /\ planets = Kernel
    /\ stars = Catalog
    /\ earth = Segment(399)
    /\ ts = "utc"
    /\ bodies = [name \in DOMAIN planet_ids |-> Segment(planet_ids[name])]
    /\ locations = Locations

Init ==
    /\ SharedInit
    /\ SessionInit
    /\ mag1 = 10 /\ mag2 = 10 /\ size1 = 0 /\ size2 = 0

----------------------------------------------------------------------------
(* The page: changing one component calls update_map with all three.  The  *)
(* request is synchronous: a session changes a component only when its      *)
(* previous request has ended; the sessions run side by side.               *)

\* the callback handed the components' values from before the change
DispatchStale(s, c, d, h) ==
    /\ req' = [req EXCEPT ![s] = [city |-> city[s], date |-> date[s], hour |-> hour[s]]]
    /\ pc' = [pc EXCEPT ![s] = "update_map"]
    /\ outcome' = [outcome EXCEPT ![s] = "running"]
    /\ calls' = [calls EXCEPT ![s] = <<>>]
    /\ UNCHANGED <<shared, display, locals, probe>>

Dispatch(s, c, d, h) ==
    /\ req' = [req EXCEPT ![s] = [city |-> c, date |-> d, hour |-> h]]
    /\ pc' = [pc EXCEPT ![s] = "update_map"]
    /\ outcome' = [outcome EXCEPT ![s] = "running"]
    /\ calls' = [calls EXCEPT ![s] = <<>>]
    /\ UNCHANGED <<shared, display, locals, probe>>

ChangeInput(s) ==
    /\ pc[s] = "idle"
    /\ \/ \E c \in CityValues \ {city[s]} :
            /\ city' = [city EXCEPT ![s] = c]
            /\ UNCHANGED <<date, hour>>
            /\ Dispatch(s, c, date[s], hour[s])
       \/ \E d \in DateValues \ {date[s]} :
            /\ date' = [date EXCEPT ![s] = d]
            /\ UNCHANGED <<city, hour>>
            /\ Dispatch(s, city[s], d, hour[s])
       \/ \E h \in HourValues \ {hour[s]} :
            /\ hour' = [hour EXCEPT ![s] = h]
            /\ UNCHANGED <<city, date>>
            /\ Dispatch(s, city[s], date[s], h)

----------------------------------------------------------------------------
(* update_map and make_sky_map, one invocation per session *)

\* an exception leaves the callback: no figure is returned, the locals are gone
Raise(s, error, log) ==
    /\ pc' = [pc EXCEPT ![s] = "idle"]
    /\ outcome' = [outcome EXCEPT ![s] = error]
    /\ calls' = [calls EXCEPT ![s] = log]
    /\ location' = [location EXCEPT ![s] = Unbound]
    /\ t' = [t EXCEPT ![s] = Unbound]
    /\ planet_data' = [planet_data EXCEPT ![s] = Unbound]
    /\ bright_stars' = [bright_stars EXCEPT ![s] = Unbound]
    /\ star_data' = [star_data EXCEPT ![s] = Unbound]
    /\ fig' = [fig EXCEPT ![s] = Unbound]
    /\ UNCHANGED <<shared, inputs, display, req, probe>>

\* the date parsed before the location is looked up
UpdateMapParseFirst(s) ==
    /\ pc[s] = "update_map"
    /\ IF ~IsIsoDate(req[s].date)
       THEN Raise(s, "ValueError", <<>>)
       ELSE IF req[s].city \notin DOMAIN locations
       THEN Raise(s, "KeyError", <<>>)
       ELSE LET ll == locations[req[s].city]
                dt == fromisoformat(req[s].date)
            IN  /\ location' = [location EXCEPT ![s] = Topos(ll[1], ll[2])]
                /\ t' = [t EXCEPT ![s] =
                            utc(dt.year, dt.month, dt.day, req[s].hour, 0)]
                /\ pc' = [pc EXCEPT ![s] = "planets"]
                /\ UNCHANGED <<shared, inputs, display, req, planet_data,
                               bright_stars, star_data, fig, outcome, calls,
                               probe>>

\* lat, lon = locations[city]; dt = datetime.fromisoformat(date);
\* make_sky_map(lat, lon, dt.year, dt.month, dt.day, hour): location, t
UpdateMap(s) ==
    /\ pc[s] = "update_map"
    /\ IF req[s].city \notin DOMAIN locations
       THEN Raise(s, "KeyError", <<>>)
       ELSE IF ~IsIsoDate(req[s].date)
       THEN Raise(s, "ValueError", <<>>)
       ELSE LET ll == locations[req[s].city]
                dt == fromisoformat(req[s].date)
            IN  /\ location' = [location EXCEPT ![s] = Topos(ll[1], ll[2])]
                /\ t' = [t EXCEPT ![s] =
                            utc(dt.year, dt.month, dt.day, req[s].hour, 0)]
                /\ pc' = [pc EXCEPT ![s] = "planets"]
                /\ UNCHANGED <<shared, inputs, display, req, planet_data,
                               bright_stars, star_data, fig, outcome, calls,
                               probe>>

\* selected_planets ... planet_data.append((name, alt, az))
CollectPlanets(s) ==
    /\ pc[s] = "planets"
    /\ LET r == PlanetLoop(selected_planets, location[s], t[s], <<>>, calls[s])
       IN  IF r.raised
           THEN Raise(s, "EphemerisRangeError", r.calls)
           ELSE /\ planet_data' = [planet_data EXCEPT ![s] = r.data]
                /\ calls' = [calls EXCEPT ![s] = r.calls]
                /\ pc' = [pc EXCEPT ![s] = "stars"]
                /\ UNCHANGED <<shared, inputs, display, req, location, t,
                               bright_stars, star_data, fig, outcome, probe>>

\* the magnitude cut applied to the module's table itself
CollectStarsInPlace(s) ==
    /\ pc[s] = "stars"
    /\ LET bright == BrightStars(stars)
           r == StarLoop(bright, location[s], t[s], <<>>, calls[s])
       IN  /\ stars' = bright
           /\ bright_stars' = [bright_stars EXCEPT ![s] = bright]
           /\ star_data' = [star_data EXCEPT ![s] = r.data]
           /\ calls' = [calls EXCEPT ![s] = r.calls]
           /\ pc' = [pc EXCEPT ![s] = IF r.raised THEN "idle" ELSE "figure"]
           /\ outcome' = [outcome EXCEPT ![s] =
                            IF r.raised THEN "EphemerisRangeError" ELSE @]
           /\ UNCHANGED <<planets, earth, ts, bodies, locations, inputs, display,
                          req, location, t, planet_data, fig, probe>>

\* bright_stars = stars[stars['magnitude'] < 6] ... star_data.append(...)
CollectStars(s) ==
    /\ pc[s] = "stars"
    /\ LET bright == BrightStars(stars)
           r == StarLoop(bright, location[s], t[s], <<>>, calls[s])
       IN  IF r.raised
           THEN Raise(s, "EphemerisRangeError", r.calls)
           ELSE /\ bright_stars' = [bright_stars EXCEPT ![s] = bright]
                /\ star_data' = [star_data EXCEPT ![s] = r.data]
                /\ calls' = [calls EXCEPT ![s] = r.calls]
                /\ pc' = [pc EXCEPT ![s] = "figure"]
                /\ UNCHANGED <<shared, inputs, display, req, location, t,
                               planet_data, fig, outcome, probe>>

\* the figure made once for the module and reused: traces pile up on the one
\* the session was last given
BuildFigureReused(s) ==
    /\ pc[s] = "figure"
    /\ fig' = [fig EXCEPT ![s] =
                [data |-> AddPlanetTraces(
                              AddStarTraces(IF display[s] = NoFigure THEN <<>>
                                            ELSE display[s][1].data,
                                            star_data[s]),
                              planet_data[s]),
                 layout |-> Layout]]
    /\ pc' = [pc EXCEPT ![s] = "return"]
    /\ UNCHANGED <<shared, inputs, display, req, location, t, planet_data,
                   bright_stars, star_data, outcome, calls, probe>>

\* the planet traces added before the star traces
BuildFigurePlanetsFirst(s) ==
    /\ pc[s] = "figure"
    /\ fig' = [fig EXCEPT ![s] =
                [data |-> AddStarTraces(AddPlanetTraces(<<>>, planet_data[s]),
                                        star_data[s]),
                 layout |-> Layout]]
    /\ pc' = [pc EXCEPT ![s] = "return"]
    /\ UNCHANGED <<shared, inputs, display, req, location, t, planet_data,
                   bright_stars, star_data, outcome, calls, probe>>

\* fig = go.Figure(); the star traces; the planet traces; update_layout
BuildFigure(s) ==
    /\ pc[s] = "figure"
    /\ fig' = [fig EXCEPT ![s] =
                [data |-> AddPlanetTraces(AddStarTraces(<<>>, star_data[s]),
                                          planet_data[s]),
                 layout |-> Layout]]
    /\ pc' = [pc EXCEPT ![s] = "return"]
    /\ UNCHANGED <<shared, inputs, display, req, location, t, planet_data,
                   bright_stars, star_data, outcome, calls, probe>>

\* return fig, from make_sky_map and from update_map: the graph shows it
Return(s) ==
    /\ pc[s] = "return"
    /\ display' = [display EXCEPT ![s] = <<fig[s]>>]
    /\ outcome' = [outcome EXCEPT ![s] = "ok"]
    /\ pc' = [pc EXCEPT ![s] = "idle"]
    /\ location' = [location EXCEPT ![s] = Unbound]
    /\ t' = [t EXCEPT ![s] = Unbound]
    /\ planet_data' = [planet_data EXCEPT ![s] = Unbound]
    /\ bright_stars' = [bright_stars EXCEPT ![s] = Unbound]
    /\ star_data' = [star_data EXCEPT ![s] = Unbound]
    /\ fig' = [fig EXCEPT ![s] = Unbound]
    /\ UNCHANGED <<shared, inputs, req, calls, probe>>

Next ==
    \E s \in Sessions :
        \/ ChangeInput(s)
        \/ UpdateMap(s)
        \/ CollectPlanets(s)
        \/ CollectStars(s)
        \/ BuildFigure(s)
        \/ Return(s)

Spec == Init /\ [][Next]_vars

----------------------------------------------------------------------------
(* The marker size function on its own *)

Magnitudes == (0 - 20)..MaxMag

SizeInit ==
    /\ SharedInit
    /\ SessionInit
    /\ mag1 \in Magnitudes /\ mag2 \in Magnitudes
    /\ size1 = 0 /\ size2 = 0

ApplySize ==
    /\ size1 = 0
    /\ size1' = StarSize(mag1)
    /\ size2' = StarSize(mag2)
    /\ UNCHANGED <<shared, inputs, display, req, pc, locals, outcome, calls,
                   mag1, mag2>>

SizeNext == ApplySize

SizeSpec == SizeInit /\ [][SizeNext]_vars

----------------------------------------------------------------------------
(* What a request should produce, stated without the loops *)

InFlight(s) == pc[s] \in {"planets", "stars", "figure", "return"}

\* the sky position the library gives a body or a catalog row for session s
BodyPos(s, name) == to_altaz(bodies[name], location[s], t[s])

RowPos(s, row) == to_altaz(StarFromRow(row), location[s], t[s])

RowOfHip(hip) == CHOOSE row \in {stars[i] : i \in DOMAIN stars} : row.hip = hip

NamesIn(pds) == {pds[i].name : i \in DOMAIN pds}

HipsIn(sds) == {sds[i].hip : i \in DOMAIN sds}

\* the observer and the instant of the components' values c, d, h
ObserverOf(c) == [center |-> earth, lat |-> locations[c][1], lon |-> locations[c][2]]

InstantOf(d, h) ==
    [year |-> d[1], month |-> d[2], day |-> d[3], hour |-> h, minute |-> 0]

Answerable(c, d) ==
    /\ c \in DOMAIN locations
    /\ IsIsoDate(d)
    /\ d[1] >= planets.first_year /\ d[1] <= planets.last_year

\* the chart of (c, d, h): the rows under magnitude 6.0 that are above the
\* horizon, in catalog order, then the five bodies that are above it, in the
\* order Mercury, Venus, Mars, Moon, Sun
ChartOf(c, d, h) ==
    LET loc == ObserverOf(c)
        tm  == InstantOf(d, h)
        up  == SelectSeq(stars, LAMBDA row :
                   row.magnitude < 60 /\ to_altaz(StarFromRow(row), loc, tm).alt > 0)
        pl  == SelectSeq(selected_planets, LAMBDA n :
                   to_altaz(bodies[n], loc, tm).alt > 0)
        st(i) == LET p == to_altaz(StarFromRow(up[i]), loc, tm)
                 IN  [r |-> 90 - p.alt, theta |-> p.az, mode |-> "markers",
                      size |-> StarSize(up[i].magnitude), color |-> "white",
                      hovertext |-> <<up[i].hip, up[i].magnitude>>]
        bd(i) == LET p == to_altaz(bodies[pl[i]], loc, tm)
                 IN  [r |-> 90 - p.alt, theta |-> p.az, mode |-> "markers+text",
                      size |-> 1500000, color |-> "lightgray", hovertext |-> <<>>]
    IN  [data |-> [i \in 1..Len(up) |-> st(i)] \o [i \in 1..Len(pl) |-> bd(i)],
         layout |-> Layout]

----------------------------------------------------------------------------
(* C1: a selected body is in planet_data, and a projected star is in        *)
(* star_data, if and only if its altitude is strictly above 0; an object at  *)
(* altitude 0 or below is in neither list and has no trace in the chart.     *)

C1_HorizonCut ==
    \A s \in Sessions :
        /\ pc[s] \in {"stars", "figure", "return"} =>
              \A i \in DOMAIN selected_planets :
                  (selected_planets[i] \in NamesIn(planet_data[s]))
                      <=> (BodyPos(s, selected_planets[i]).alt > 0)
        /\ pc[s] \in {"figure", "return"} =>
              \A i \in DOMAIN bright_stars[s] :
                  (bright_stars[s][i].hip \in HipsIn(star_data[s]))
                      <=> (RowPos(s, bright_stars[s][i]).alt > 0)
        /\ pc[s] = "return" =>
              /\ \A i \in DOMAIN stars :
                    RowPos(s, stars[i]).alt <= 0 =>
                        \A k \in DOMAIN fig[s].data :
                            fig[s].data[k].hovertext # <<stars[i].hip, stars[i].magnitude>>
              /\ Cardinality({k \in DOMAIN fig[s].data :
                                  fig[s].data[k].mode = "markers+text"})
                   = Cardinality({i \in DOMAIN selected_planets :
                                      BodyPos(s, selected_planets[i]).alt > 0})

\* a finished request in which a body stood exactly on the horizon, and one
\* in which a projected star did, while other objects were above it
C1_Witness ==
    /\ \E s \in Sessions :
          /\ pc[s] = "return"
          /\ \E i \in DOMAIN selected_planets :
                BodyPos(s, selected_planets[i]).alt = 0
    /\ \E s \in Sessions :
          /\ pc[s] = "return"
          /\ \E i \in DOMAIN bright_stars[s] : RowPos(s, bright_stars[s][i]).alt = 0
          /\ Len(star_data[s]) > 0
          /\ Len(planet_data[s]) > 0

\* the to_altaz calls of a request that were made for catalog rows, and the
\* catalog rows of magnitude 6.0 or more
StarCalls(s) == SelectSeq(calls[s], LAMBDA c : c[1] = "star")

FaintRows == {i \in DOMAIN stars : stars[i].magnitude >= 60}

(* C2: a catalog row of magnitude 6.0 or more never reaches to_altaz and is  *)
(* in neither star_data nor the chart, whatever its altitude; every row      *)
(* under 6.0 is projected exactly once per request, in catalog order; the    *)
(* cut is 6.0 for every request.                                             *)

C2_MagnitudeCut ==
    \A s \in Sessions :
        /\ \A k \in DOMAIN StarCalls(s) :
              RowOfHip(StarCalls(s)[k][2]).magnitude < 60
        /\ pc[s] \in {"figure", "return"} =>
              /\ StarCalls(s) =
                    LET b == SelectSeq(stars, LAMBDA row : row.magnitude < 60)
                    IN  [k \in 1..Len(b) |-> <<"star", b[k].hip>>]
              /\ \A i \in FaintRows : stars[i].hip \notin HipsIn(star_data[s])
        /\ pc[s] = "return" =>
              \A i \in FaintRows : \A k \in DOMAIN fig[s].data :
                  fig[s].data[k].hovertext # <<stars[i].hip, stars[i].magnitude>>

\* a finished request that left out a row of magnitude exactly 6.0 standing
\* above the horizon, and projected the rows under 6.0
C2_Witness ==
    \E s \in Sessions :
        /\ pc[s] = "return"
        /\ \E i \in FaintRows :
              /\ stars[i].magnitude = 60
              /\ RowPos(s, stars[i]).alt > 0
        /\ Len(StarCalls(s)) >= 2

(* C3: every trace has radius 90 - altitude and angle = azimuth of the       *)
(* object it stands for, the radius lies in 0..90, and an object at altitude *)
(* 90 is drawn at radius 0.                                                  *)

C3_RadiusAngle ==
    \A s \in Sessions :
        pc[s] = "return" =>
            LET ns == Len(star_data[s])
                np == Len(planet_data[s])
            IN  /\ Len(fig[s].data) = ns + np
                /\ \A k \in 1..ns :
                      LET p == RowPos(s, RowOfHip(star_data[s][k].hip))
                          tr == fig[s].data[k]
                      IN  /\ tr.r = 90 - p.alt
                          /\ tr.theta = p.az
                          /\ tr.r >= 0 /\ tr.r <= 90
                          /\ p.alt = 90 => tr.r = 0
                /\ \A k \in 1..np :
                      LET p == BodyPos(s, planet_data[s][k].name)
                          tr == fig[s].data[ns + k]
                      IN  /\ tr.r = 90 - p.alt
                          /\ tr.theta = p.az
                          /\ tr.r >= 0 /\ tr.r <= 90
                          /\ p.alt = 90 => tr.r = 0

\* a finished chart with a star at the zenith, and one with a body there
C3_Witness ==
    /\ \E s \in Sessions :
          /\ pc[s] = "return"
          /\ \E k \in DOMAIN star_data[s] :
                star_data[s][k].alt = 90 /\ fig[s].data[k].r = 0
    /\ \E s \in Sessions :
          /\ pc[s] = "return"
          /\ \E k \in DOMAIN planet_data[s] :
                /\ planet_data[s][k].alt = 90
                /\ fig[s].data[Len(star_data[s]) + k].r = 0

\* the rows and the bodies a request should draw
UpRows(s) ==
    SelectSeq(stars, LAMBDA row : row.magnitude < 60 /\ RowPos(s, row).alt > 0)

UpBodies(s) == SelectSeq(selected_planets, LAMBDA n : BodyPos(s, n).alt > 0)

(* C10: the chart holds one single-point trace per visible object and     *)
(* nothing else: as many traces as rows under 6.0 above the horizon plus     *)
(* selected bodies above the horizon; the star traces first, in catalog      *)
(* order, then the body traces in the order Mercury, Venus, Mars, Moon, Sun  *)
(* with the bodies below the horizon left out.                               *)

C10_TraceOrder ==
    \A s \in Sessions :
        pc[s] = "return" =>
            LET data == fig[s].data
                ns == Len(UpRows(s))
                nb == Len(UpBodies(s))
            IN  /\ Len(data) = ns + nb
                /\ \A k \in 1..ns :
                      /\ data[k].mode = "markers"
                      /\ data[k].hovertext = <<UpRows(s)[k].hip, UpRows(s)[k].magnitude>>
                /\ \A k \in 1..nb :
                      /\ data[ns + k].mode = "markers+text"
                      /\ data[ns + k].r = 90 - BodyPos(s, UpBodies(s)[k]).alt
                      /\ data[ns + k].theta = BodyPos(s, UpBodies(s)[k]).az
                      /\ planet_data[s][k].name = UpBodies(s)[k]

\* a finished chart with several star traces, several body traces and a body
\* left out from the middle of the fixed order
C10_Witness ==
    \E s \in Sessions :
        /\ pc[s] = "return"
        /\ Len(UpRows(s)) >= 2
        /\ UpBodies(s) = <<"Mercury", "Mars", "Moon", "Sun">>
        /\ Len(fig[s].data) = 6

(* C6: the computation is pure: requests with the same (city, date, hour)    *)
(* yield the same visible-object lists and the same chart, whichever session *)
(* makes them and whatever other requests ran in between.                    *)

C6_SameInputsSameChart ==
    \A s1, s2 \in Sessions :
        (pc[s1] = "return" /\ req[s1] = req[s2]) =>
            /\ pc[s2] = "return" =>
                  /\ planet_data[s1] = planet_data[s2]
                  /\ star_data[s1] = star_data[s2]
                  /\ fig[s1] = fig[s2]
            /\ (pc[s2] = "idle" /\ outcome[s2] = "ok") =>
                  display[s2] = <<fig[s1]>>

\* one session holds the chart of a request it finished earlier while the
\* other, after requests of its own, has recomputed the same request
C6_Witness ==
    \E s1, s2 \in Sessions :
        /\ s1 # s2
        /\ pc[s1] = "return" /\ display[s1] # NoFigure
        /\ display[s1] # <<fig[s1]>>
        /\ pc[s2] = "idle" /\ outcome[s2] = "ok" /\ req[s2] = req[s1]
        /\ Len(fig[s1].data) > 0

(* C7: after start-up no request writes the module-level state (planets,  *)
(* earth, ts, stars, bodies, locations), so under any interleaving of the    *)
(* sessions' requests each request builds the chart it would build alone.    *)

C7_SharedReadOnly ==
    /\ planets = Kernel
    /\ earth = Segment(399)
    /\ ts = "utc"
    /\ stars = Catalog
    /\ bodies = [name \in DOMAIN planet_ids |-> Segment(planet_ids[name])]
    /\ locations = Locations
    /\ \A s \in Sessions :
          pc[s] = "return" => fig[s] = ChartOf(req[s].city, req[s].date, req[s].hour)

\* two different requests under way at once, one finished and one mid-way
C7_Witness ==
    \E s1, s2 \in Sessions :
        /\ pc[s1] = "return"
        /\ pc[s2] \in {"stars", "figure"}
        /\ req[s1] # req[s2]
        /\ Len(fig[s1].data) > 0

\* how a request may fail; what holds of a request that has ended; what holds
\* of every step
Errors == {"KeyError", "ValueError", "EphemerisRangeError"}

C8_Ended ==
    \A s \in Sessions :
        pc[s] = "idle" =>
            /\ outcome[s] \in Errors \cup {"ok"}
            /\ req[s].city \notin DOMAIN locations =>
                  outcome[s] = "KeyError" /\ calls[s] = <<>>
            /\ (req[s].city \in DOMAIN locations /\ ~IsIsoDate(req[s].date)) =>
                  outcome[s] = "ValueError" /\ calls[s] = <<>>
            /\ (/\ req[s].city \in DOMAIN locations
                /\ IsIsoDate(req[s].date)
                /\ req[s].date[1] > planets.last_year) =>
                  outcome[s] = "EphemerisRangeError"
            /\ outcome[s] = "ok" =>
                  /\ Answerable(req[s].city, req[s].date)
                  /\ display[s] # NoFigure
                  /\ Len(calls[s]) =
                        Len(selected_planets)
                          + Cardinality({i \in DOMAIN stars : stars[i].magnitude < 60})

C8_Step ==
    \A s \in Sessions :
        /\ outcome'[s] \in Errors =>
              /\ display'[s] = display[s]
              /\ fig'[s] = Unbound
        /\ display'[s] # display[s] =>
              /\ pc[s] = "return" /\ outcome'[s] = "ok"
              /\ display'[s] = <<fig[s]>>
              /\ Len(fig[s].data) = Len(UpRows(s)) + Len(UpBodies(s))

(* C8: a request is all or nothing.  An unknown city fails with a lookup     *)
(* error before the date is parsed and before any projection; a malformed    *)
(* date fails with a parse error before any projection; a projection that    *)
(* fails aborts the request; a failed request returns no figure and leaves   *)
(* the graph as it was; a figure reaches the graph only whole.               *)

C8_AllOrNothing == []C8_Ended /\ [][C8_Step]_vars

\* one session failed on an unknown city although its date was malformed too,
\* the other failed in its first projection; both still show an earlier chart
C8_Witness ==
    \E s1, s2 \in Sessions :
        /\ pc[s1] = "idle" /\ outcome[s1] = "KeyError"
        /\ ~IsIsoDate(req[s1].date)
        /\ display[s1] # NoFigure
        /\ pc[s2] = "idle" /\ outcome[s2] = "EphemerisRangeError"
        /\ calls[s2] = <<<<"body", 199>>>>
        /\ display[s2] # NoFigure

\* a session's three components; what holds while and after a request; what
\* starts a request
Components(s) == <<city[s], date[s], hour[s]>>

C9_Current ==
    \A s \in Sessions :
        /\ pc[s] # "idle" =>
              req[s] = [city |-> city[s], date |-> date[s], hour |-> hour[s]]
        /\ InFlight(s) =>
              /\ t[s].minute = 0
              /\ t[s].hour = hour[s]
              /\ <<t[s].year, t[s].month, t[s].day>> = date[s]
              /\ <<location[s].lat, location[s].lon>> = locations[city[s]]
        /\ (pc[s] = "idle" /\ outcome[s] = "ok") =>
              display[s] = <<ChartOf(city[s], date[s], hour[s])>>

C9_Trigger ==
    \A s \in Sessions :
        (Components(s)' # Components(s)) <=> (pc[s] = "idle" /\ pc'[s] = "update_map")

(* C9: changing one of city, date, hour starts exactly one recomputation,    *)
(* made with the current values of all three and with the minute at zero;    *)
(* nothing else starts one; once it has returned, the graph shows the chart  *)
(* of the current (city, date, hour).                                        *)

C9_Recompute == []C9_Current /\ [][C9_Trigger]_vars

\* a graph showing the chart made after all three components were changed
C9_Witness ==
    \E s \in Sessions :
        /\ pc[s] = "idle" /\ outcome[s] = "ok"
        /\ city[s] = "Nairobi" /\ date[s] = <<2024, 12, 21>> /\ hour[s] = 0
        /\ Len(display[s][1].data) > 0

----------------------------------------------------------------------------
(* C4, as stated: for any two magnitudes m1 < m2, size(m1) > size(m2).       *)

C4_StrictlyDecreasing ==
    (size1 # 0 /\ mag1 < mag2) => size1 > size2

(* C4, amended: the size never increases with magnitude; it strictly         *)
(* decreases as long as the smaller magnitude is above the floor (which      *)
(* covers every magnitude under 6.0), and is 0.5 from there on.              *)

C4_DecreasingToFloor ==
    (size1 # 0 /\ mag1 < mag2) =>
        /\ size1 >= size2
        /\ size1 > 50000 => size1 > size2
        /\ size1 = 50000 => size2 = 50000
        /\ mag1 < 60 => size1 > size2

\* two magnitudes on the floor, where the size no longer decreases
C4_Witness ==
    /\ size1 # 0 /\ mag1 < mag2
    /\ size1 = 50000 /\ size2 = 50000

(* C5: the size is never below 0.5, is 12 at magnitude 1.0 and exactly 0.5   *)
(* at magnitude 20; the floor applies whenever 12 * exp(-0.4 * (m - 1.0)) is *)
(* below 0.5.                                                                *)

C5_Floor ==
    size1 # 0 =>
        /\ size1 >= 50000
        /\ mag1 = 10 => size1 = 1200000
        /\ mag1 = 200 => size1 = 50000
        /\ 12 * ExpDecay(mag1 - 10) < 50000 => size1 = 50000
        /\ 12 * ExpDecay(mag1 - 10) >= 50000 => size1 = 12 * ExpDecay(mag1 - 10)

\* the size applied at magnitude 20 and at magnitude 1.0
C5_Witness ==
    /\ size1 = 50000 /\ mag1 = 200
    /\ size2 = 1200000 /\ mag2 = 10

====
